---- MODULE Spec2Model ----
(***************************************************************************)
(* A model of homework.py: a single-threaded bot that polls a homework     *)
(* review API and relays status changes to a Telegram chat.                *)
(*                                                                         *)
(* Python values are tagged records, so that None, "", [] and {} stay      *)
(* distinct.  Texts are sequences of string tokens; the Russian literals   *)
(* of the source are written in Latin transliteration.                     *)
(***************************************************************************)
EXTENDS Naturals, Sequences, FiniteSets

VARIABLES
    pc,                 \* position of main
    creds,              \* the three module-level credentials (present or not)
    now,                \* the clock read by time.time()
    current_timestamp,  \* main's local
    response,           \* main's local
    homework,           \* main's local
    status,             \* main's local
    new_status,         \* main's local
    message,            \* main's local
    error,              \* the exception bound by main's except clause
    uncaught,           \* the exception that left main, if any
    from_date,          \* query parameter of the latest HTTP request
    lastSend,           \* the call of send_message of the current iteration
    stepLog,            \* what the latest step wrote to the logger
    iter,               \* what the current loop iteration has done so far
    ever,               \* what the process has done since it started
    hist                \* facts about the sequence of fetched payloads

vars == <<pc, creds, now, current_timestamp, response, homework, status,
          new_status, message, error, uncaught, from_date, lastSend, stepLog, iter,
          ever, hist>>

-----------------------------------------------------------------------------
(* Bounds of the model *)

MaxSleeps == 2
MaxHomeworks == 2
StartTime == 1000

-----------------------------------------------------------------------------
(* Python values *)

None == [t |-> "none"]
Unbound == [t |-> "unbound"]
Str(s) == [t |-> "str", v |-> s]
Int(n) == [t |-> "int", v |-> n]
List(s) == [t |-> "list", v |-> s]
Dict(f) == [t |-> "dict", v |-> f]
EmptyDict == Dict([k \in {} |-> None])

\* bool(x)
Truthy(x) ==
    CASE x.t = "none" -> FALSE
      [] x.t = "str" -> x.v # ""
      [] x.t = "int" -> x.v # 0
      [] x.t = "list" -> x.v # <<>>
      [] x.t = "dict" -> DOMAIN x.v # {}

IsDict(x) == x.t = "dict"
IsList(x) == x.t = "list"
\* key in x, for a dict x
HasKey(x, key) == key \in DOMAIN x.v

\* str(n) for a natural number n, one token per decimal digit
RECURSIVE Digits(_)
Digits(n) ==
    LET d == <<"0", "1", "2", "3", "4", "5", "6", "7", "8", "9">>[(n % 10) + 1]
    IN IF n < 10 THEN <<d>> ELSE Digits(n \div 10) \o <<d>>

\* str(x) inside an f-string, for the values that reach one
Format(x) ==
    CASE x.t = "str" -> <<x.v>>
      [] x.t = "int" -> Digits(x.v)
      [] x.t = "none" -> <<"None">>

-----------------------------------------------------------------------------
(* Module-level constants *)

RETRY_TIME == 600

HOMEWORK_STATUSES ==
    [approved |-> "Rabota proverena: revyueru vsyo ponravilos. Ura!",
     reviewing |-> "Rabota vzyata na proverku revyuerom.",
     rejected |-> "Rabota proverena: u revyuera est zamechaniya."]

HTTPStatusOK == 200

-----------------------------------------------------------------------------
(* Exceptions and log records *)

Exc(type, msg) == [type |-> type, msg |-> msg]
LogRec(level, msg) == [level |-> level, msg |-> msg]

\* str(error): KeyError shows the repr of its argument
ExcStr(e) ==
    IF e.type = "KeyError" THEN <<"'">> \o e.msg \o <<"'">> ELSE e.msg

Return(v, log) == [k |-> "return", v |-> v, log |-> log]
Raise(e, log) == [k |-> "raise", exc |-> e, log |-> log]

-----------------------------------------------------------------------------
(* send_message *)

BotOutcomes == {"ok", "TelegramError"}

send_message_reraises(msg, outcome) ==
    IF outcome = "TelegramError"
    THEN [attempts |-> 1, raised |-> TRUE,
          log |-> <<LogRec("ERROR",
                     <<"Bot ne smog otpravit soobshchenie ">> \o msg
                       \o <<". Oshibka ", "TelegramError">>)>>]
    ELSE [attempts |-> 1, raised |-> FALSE,
          log |-> <<LogRec("INFO",
                     <<"Bot otpravil soobshchenie \"">> \o msg \o <<"\"">>)>>]

\* one call of bot.send_message, whose outcome the transport decides
send_message(msg, outcome) ==
    IF outcome = "TelegramError"
    THEN [attempts |-> 1, raised |-> FALSE,
          log |-> <<LogRec("ERROR",
                     <<"Bot ne smog otpravit soobshchenie ">> \o msg
                       \o <<". Oshibka ", "TelegramError">>)>>]
    ELSE [attempts |-> 1, raised |-> FALSE,
          log |-> <<LogRec("INFO",
                     <<"Bot otpravil soobshchenie \"">> \o msg \o <<"\"">>)>>]

-----------------------------------------------------------------------------
(* get_api_answer *)

\* bool(response) of a requests.Response is response.ok
ResponseOk(http) == http.status_code < 400

get_api_answer_ok_only(ts, clock, http) ==
    LET timestamp == IF ts # 0 THEN ts ELSE clock
    IN IF http.k = "raise"
       THEN [from_date |-> timestamp, r |-> Raise(Exc(http.type, <<http.type>>), <<>>)]
       ELSE IF ~ResponseOk(http)
       THEN LET m == <<"Kod otveta API: ">> \o Digits(http.status_code)
            IN [from_date |-> timestamp,
                r |-> Raise(Exc("HTTPError", m), <<LogRec("ERROR", m)>>)]
       ELSE IF http.body.k = "json"
       THEN [from_date |-> timestamp, r |-> Return(http.body.v, <<>>)]
       ELSE [from_date |-> timestamp,
             r |-> Raise(Exc("JSONDecodeError", <<"JSONDecodeError">>), <<>>)]

\* http is what requests.get does: it raises, or returns a response
get_api_answer(ts, clock, http) ==
    LET timestamp == IF ts # 0 THEN ts ELSE clock
    IN IF http.k = "raise"
       THEN [from_date |-> timestamp, r |-> Raise(Exc(http.type, <<http.type>>), <<>>)]
       ELSE IF http.status_code # HTTPStatusOK
       THEN LET m == <<"Kod otveta API: ">> \o Digits(http.status_code)
            IN [from_date |-> timestamp,
                r |-> Raise(Exc("HTTPError", m), <<LogRec("ERROR", m)>>)]
       ELSE IF ~ResponseOk(http)
       THEN LET m == <<"Poluchen pusto otvet pri obrashchenii k API">>
            IN [from_date |-> timestamp,
                r |-> Raise(Exc("Exception", m), <<LogRec("ERROR", m)>>)]
       ELSE IF http.body.k = "json"
       THEN [from_date |-> timestamp, r |-> Return(http.body.v, <<>>)]
       ELSE [from_date |-> timestamp,
             r |-> Raise(Exc("JSONDecodeError", <<"JSONDecodeError">>), <<>>)]

-----------------------------------------------------------------------------
(* check_response *)

MissingKeyInResponse(key) == <<"Otsutstvuet klyuch \"", key, "\" v otvete API">>

check_response_skips_list_check(resp) ==
    IF ~Truthy(resp)
    THEN LET m == <<"Poluchen pustoy otvet pri obrashchenii k API">>
         IN Raise(Exc("Exception", m), <<LogRec("ERROR", m)>>)
    ELSE IF ~IsDict(resp)
    THEN LET m == <<"Poluchen nekorretnyy otvet pri obrshchaenii k API">>
         IN Raise(Exc("TypeError", m), <<LogRec("ERROR", m)>>)
    ELSE IF ~HasKey(resp, "homeworks")
    THEN Raise(Exc("KeyError", MissingKeyInResponse("homeworks")),
               <<LogRec("ERROR", MissingKeyInResponse("homeworks"))>>)
    ELSE IF ~HasKey(resp, "current_date")
    THEN Raise(Exc("KeyError", MissingKeyInResponse("current_date")),
               <<LogRec("ERROR", MissingKeyInResponse("current_date"))>>)
    ELSE Return(resp.v["homeworks"], <<>>)

check_response_type_first(resp) ==
    IF ~Truthy(resp)
    THEN LET m == <<"Poluchen pustoy otvet pri obrashchenii k API">>
         IN Raise(Exc("Exception", m), <<LogRec("ERROR", m)>>)
    ELSE IF ~IsDict(resp)
    THEN LET m == <<"Poluchen nekorretnyy otvet pri obrshchaenii k API">>
         IN Raise(Exc("TypeError", m), <<LogRec("ERROR", m)>>)
    ELSE IF ~HasKey(resp, "homeworks")
    THEN Raise(Exc("KeyError", MissingKeyInResponse("homeworks")),
               <<LogRec("ERROR", MissingKeyInResponse("homeworks"))>>)
    ELSE IF ~IsList(resp.v["homeworks"])
    THEN LET m == <<"Obyekt po klyuchu \"homeworks\" ne yavlyaetsya spiskom">>
         IN Raise(Exc("TypeError", m), <<LogRec("ERROR", m)>>)
    ELSE IF ~HasKey(resp, "current_date")
    THEN Raise(Exc("KeyError", MissingKeyInResponse("current_date")),
               <<LogRec("ERROR", MissingKeyInResponse("current_date"))>>)
    ELSE Return(resp.v["homeworks"], <<>>)

check_response(resp) ==
    IF ~Truthy(resp)
    THEN LET m == <<"Poluchen pustoy otvet pri obrashchenii k API">>
         IN Raise(Exc("Exception", m), <<LogRec("ERROR", m)>>)
    ELSE IF ~IsDict(resp)
    THEN LET m == <<"Poluchen nekorretnyy otvet pri obrshchaenii k API">>
         IN Raise(Exc("TypeError", m), <<LogRec("ERROR", m)>>)
    ELSE IF ~HasKey(resp, "homeworks")
    THEN Raise(Exc("KeyError", MissingKeyInResponse("homeworks")),
               <<LogRec("ERROR", MissingKeyInResponse("homeworks"))>>)
    ELSE IF ~HasKey(resp, "current_date")
    THEN Raise(Exc("KeyError", MissingKeyInResponse("current_date")),
               <<LogRec("ERROR", MissingKeyInResponse("current_date"))>>)
    ELSE IF ~IsList(resp.v["homeworks"])
    THEN LET m == <<"Obyekt po klyuchu \"homeworks\" ne yavlyaetsya spiskom">>
         IN Raise(Exc("TypeError", m), <<LogRec("ERROR", m)>>)
    ELSE Return(resp.v["homeworks"], <<>>)

-----------------------------------------------------------------------------
(* parse_status *)

MissingKeyInHomework(key) ==
    <<"Otsutstvuet klyuch \"", key, "\" v obyekte \"homework\"">>

StatusChanged(name, verdict) ==
    <<"Izmenilsya status proverki raboty \"">> \o name \o <<"\". ">> \o verdict

UnboundLocal(name) ==
    Exc("UnboundLocalError",
        <<"local variable '", name, "' referenced before assignment">>)

\* the status is one of the keys of HOMEWORK_STATUSES
KnownStatus(s) == s.t = "str" /\ s.v \in DOMAIN HOMEWORK_STATUSES

parse_status_echoes_status(hw) ==
    IF ~HasKey(hw, "homework_name") \/ ~HasKey(hw, "status")
    THEN Raise(Exc("KeyError", MissingKeyInHomework("status")), <<>>)
    ELSE Return(StatusChanged(Format(hw.v["homework_name"]),
                              Format(hw.v["status"])), <<>>)

\* hw is a dict
parse_status(hw) ==
    IF ~HasKey(hw, "homework_name")
    THEN Raise(Exc("KeyError", MissingKeyInHomework("homework_name")),
               <<LogRec("ERROR", MissingKeyInHomework("homework_name"))>>)
    ELSE IF ~HasKey(hw, "status")
    THEN Raise(Exc("KeyError", MissingKeyInHomework("status")),
               <<LogRec("ERROR", MissingKeyInHomework("status"))>>)
    ELSE
      LET nameOk == Truthy(hw.v["homework_name"])
          statusOk == KnownStatus(hw.v["status"])
          log == (IF nameOk THEN <<>>
                  ELSE <<LogRec("ERROR", <<"Otsustvuet imya proekta">>)>>)
                 \o (IF statusOk THEN <<>>
                     ELSE <<LogRec("ERROR", <<"Neizvestnyy status proekta">>)>>)
      IN IF ~nameOk THEN Raise(UnboundLocal("homework_name"), log)
         ELSE IF ~statusOk THEN Raise(UnboundLocal("verdict"), log)
         ELSE Return(StatusChanged(Format(hw.v["homework_name"]),
                                   <<HOMEWORK_STATUSES[hw.v["status"].v]>>), log)

-----------------------------------------------------------------------------
(* check_tokens *)

check_tokens_any(c) ==
    LET result == c.PRACTICUM_TOKEN \/ c.TELEGRAM_TOKEN \/ c.TELEGRAM_CHAT_ID
    IN [result |-> result,
        log |-> IF result THEN <<>>
                ELSE <<LogRec("CRITICAL",
                        <<"Otsutstvuet obyazatelnaya peremennaya okruzheniya">>)>>]

check_tokens(c) ==
    LET result == c.PRACTICUM_TOKEN /\ c.TELEGRAM_TOKEN /\ c.TELEGRAM_CHAT_ID
    IN [result |-> result,
        log |-> IF result THEN <<>>
                ELSE <<LogRec("CRITICAL",
                        <<"Otsutstvuet obyazatelnaya peremennaya okruzheniya">>)>>]

-----------------------------------------------------------------------------
(* What the environment can supply *)

HomeworkNames == {Str(""), Str("hw1")}
HomeworkStatusValues ==
    {Str("approved"), Str("reviewing"), Str("rejected"), Str("bogus"), None}

\* records with both keys, records that lack a key, and a non-record
HomeworkRecords ==
    {Dict([homework_name |-> n, status |-> s]) :
        n \in HomeworkNames, s \in HomeworkStatusValues}
    \cup {Dict([status |-> Str("approved")]),
          Dict([homework_name |-> Str("hw1")]),
          Str("junk")}

\* the lists of more than one record: an older record follows the first one
OlderRecord == Dict([homework_name |-> Str("hw0"), status |-> Str("approved")])
NewestRecords == {Dict([homework_name |-> Str("hw1"), status |-> Str("approved")]),
                  Dict([homework_name |-> Str("hw1"), status |-> Str("rejected")])}

LongLists ==
    {List(<<r>> \o [i \in 1..n |-> OlderRecord]) :
        r \in NewestRecords, n \in 1..(MaxHomeworks - 1)}

HomeworkLists ==
    {List(<<>>)} \cup {List(<<r>>) : r \in HomeworkRecords} \cup LongLists

Payloads ==
    {Dict([homeworks |-> h, current_date |-> Int(1)]) :
        h \in HomeworkLists \cup {Str("oops"), None}}
    \cup {Dict([homeworks |-> h]) :
            h \in {List(<<>>), List(<<OlderRecord>>), Str("oops")}}
    \cup {Dict([current_date |-> Int(1)]), EmptyDict,
          List(<<>>), List(<<Int(1)>>), Str("text"), Str(""), None}

StatusCodes == {200, 201, 404, 500}

\* what requests.get does: it raises, or returns a response whose body
\* response.json() decodes or rejects
HttpOutcomes ==
    {[k |-> "raise", type |-> "ConnectionError", status_code |-> 0, body |-> None]}
    \cup {[k |-> "response", type |-> "", status_code |-> c,
           body |-> [k |-> "invalid", v |-> None]] : c \in StatusCodes}
    \cup {[k |-> "response", type |-> "", status_code |-> HTTPStatusOK,
           body |-> [k |-> "json", v |-> p]] : p \in Payloads}

CredentialSets ==
    [PRACTICUM_TOKEN : BOOLEAN, TELEGRAM_TOKEN : BOOLEAN, TELEGRAM_CHAT_ID : BOOLEAN]

-----------------------------------------------------------------------------
(* main *)

NewIter ==
    [fetch |-> 0, check |-> 0, sleep |-> 0, sendStatus |-> 0, sendFail |-> 0,
     branch |-> "none", same |-> FALSE, raisedBy |-> "none", status_code |-> 0,
     payload1 |-> Unbound, prev |-> Unbound]

NoSend == [msg |-> <<>>, kind |-> "none", attempts |-> 0, raised |-> FALSE,
           outcome |-> "none"]

Init ==
    /\ pc = "check_tokens"
    /\ creds \in CredentialSets
    /\ now = StartTime
    /\ current_timestamp = StartTime
    /\ response = Unbound
    /\ homework = Unbound
    /\ status = Unbound
    /\ new_status = Unbound
    /\ message = Unbound
    /\ error = Unbound
    /\ uncaught = Unbound
    /\ from_date = 0
    /\ lastSend = NoSend
    /\ stepLog = <<>>
    /\ iter = NewIter
    /\ ever = [fetch |-> FALSE, send |-> FALSE, sleep |-> FALSE,
               sleptSinceFetch |-> FALSE, lastPath |-> "none"]
    /\ hist = [any |-> FALSE, allSame |-> TRUE, notified |-> FALSE]

\* the bookkeeping of a fetch that returned payload p: whether it is the
\* payload the fetch before it returned
Fetched(p) ==
    [hist EXCEPT !.any = TRUE,
                 !.allSame = hist.allSame /\ (~hist.any \/ p = response)]

SamePayload(p) == hist.any /\ p = response

\* homework[0]['status'] if homework else None
first_status(hw) ==
    IF ~Truthy(hw) THEN Return(None, <<>>)
    ELSE IF ~IsDict(hw.v[1])
    THEN Raise(Exc("TypeError", <<"string indices must be integers">>), <<>>)
    ELSE IF ~HasKey(hw.v[1], "status")
    THEN Raise(Exc("KeyError", <<"status">>), <<>>)
    ELSE Return(hw.v[1].v["status"], <<>>)

StatusDiffers_ignores_previous(old, new) == Truthy(new)

\* new_status and status != new_status
StatusDiffers(old, new) == Truthy(new) /\ old # new

CanSleep == now + RETRY_TIME <= StartTime + MaxSleeps * RETRY_TIME

\* if not check_tokens(): sys.exit()
CheckTokens ==
    /\ pc = "check_tokens"
    /\ LET r == check_tokens(creds)
       IN /\ stepLog' = r.log
          /\ pc' = IF r.result THEN "fetch1" ELSE "exited"
    /\ iter' = [NewIter EXCEPT !.prev = IF ever.lastPath = "else"
                                         THEN new_status ELSE Unbound]
    /\ lastSend' = NoSend
    /\ UNCHANGED <<creds, now, current_timestamp, response, homework, status,
                   new_status, message, error, uncaught, from_date, ever, hist>>

\* response = get_api_answer(current_timestamp), inside the try block
Fetch1 ==
    /\ pc = "fetch1"
    /\ \E http \in HttpOutcomes :
         LET a == get_api_answer(current_timestamp, now, http)
         IN /\ from_date' = a.from_date
            /\ stepLog' = a.r.log
            /\ IF a.r.k = "return"
               THEN /\ response' = a.r.v
                    /\ hist' = Fetched(a.r.v)
                    /\ iter' = [iter EXCEPT !.fetch = @ + 1,
                                            !.same = SamePayload(a.r.v),
                                            !.status_code = http.status_code,
                                            !.payload1 = a.r.v]
                    /\ pc' = "check1"
                    /\ error' = error
               ELSE /\ error' = a.r.exc
                    /\ pc' = "handler"
                    /\ iter' = [iter EXCEPT !.fetch = @ + 1,
                                            !.raisedBy = "get_api_answer",
                                            !.status_code = http.status_code]
                    /\ UNCHANGED <<response, hist>>
    /\ ever' = [ever EXCEPT !.fetch = TRUE, !.sleptSinceFetch = FALSE]
    /\ UNCHANGED <<creds, now, current_timestamp, homework, status, new_status,
                   message, uncaught, lastSend>>

\* homework = check_response(response), inside the try block
Check1 ==
    /\ pc = "check1"
    /\ LET r == check_response(response)
       IN /\ stepLog' = r.log
          /\ IF r.k = "return"
             THEN /\ homework' = r.v
                  /\ pc' = "status1"
                  /\ error' = error
             ELSE /\ error' = r.exc
                  /\ pc' = "handler"
                  /\ homework' = homework
          /\ iter' = [iter EXCEPT !.check = @ + 1,
                                  !.raisedBy = IF r.k = "return" THEN @
                                               ELSE "check_response"]
    /\ UNCHANGED <<creds, now, current_timestamp, response, status, new_status,
                   message, uncaught, from_date, lastSend, ever, hist>>

Status1_skips_assignment ==
    /\ pc = "status1"
    /\ LET r == first_status(homework)
       IN IF r.k = "return"
          THEN /\ pc' = "sleep1"
               /\ error' = error
               /\ iter' = iter
          ELSE /\ error' = r.exc
               /\ pc' = "handler"
               /\ iter' = [iter EXCEPT !.raisedBy = "first_status"]
    /\ stepLog' = <<>>
    /\ UNCHANGED <<creds, now, current_timestamp, response, homework, status,
                   new_status, message, uncaught, from_date, lastSend, ever,
                   hist>>

\* status = homework[0]['status'] or None, inside the try block
Status1 ==
    /\ pc = "status1"
    /\ LET r == first_status(homework)
       IN IF r.k = "return"
          THEN /\ status' = r.v
               /\ pc' = "sleep1"
               /\ error' = error
               /\ iter' = iter
          ELSE /\ error' = r.exc
               /\ pc' = "handler"
               /\ status' = status
               /\ iter' = [iter EXCEPT !.raisedBy = "first_status"]
    /\ stepLog' = <<>>
    /\ UNCHANGED <<creds, now, current_timestamp, response, homework, new_status,
                   message, uncaught, from_date, lastSend, ever, hist>>

\* time.sleep(RETRY_TIME), the last statement of the try block
Sleep1 ==
    /\ pc = "sleep1"
    /\ CanSleep
    /\ now' = now + RETRY_TIME
    /\ pc' = "timestamp2"
    /\ stepLog' = <<>>
    /\ iter' = [iter EXCEPT !.sleep = @ + 1]
    /\ ever' = [ever EXCEPT !.sleep = TRUE, !.sleptSinceFetch = TRUE]
    /\ UNCHANGED <<creds, current_timestamp, response, homework, status,
                   new_status, message, error, uncaught, from_date, lastSend,
                   hist>>

\* except Exception as error: build the message, log it, send it
Handler ==
    /\ pc = "handler"
    /\ LET m == <<"Sboy v rabote programmy: ">> \o ExcStr(error)
       IN /\ message' = m
          /\ \E outcome \in BotOutcomes :
               LET s == send_message(m, outcome)
               IN /\ lastSend' = [msg |-> m, kind |-> "failure",
                                  attempts |-> s.attempts, raised |-> s.raised,
                                  outcome |-> outcome]
                  /\ stepLog' = <<LogRec("ERROR", m)>> \o s.log
                  /\ IF s.raised
                     THEN /\ pc' = "crashed"
                          /\ uncaught' = Exc("TelegramError", <<"TelegramError">>)
                     ELSE /\ pc' = "sleep_exc"
                          /\ uncaught' = uncaught
                  /\ iter' = [iter EXCEPT !.sendFail = @ + 1,
                                          !.raisedBy = IF s.raised
                                                       THEN "send_message" ELSE @]
    /\ ever' = [ever EXCEPT !.send = TRUE]
    /\ UNCHANGED <<creds, now, current_timestamp, response, homework, status,
                   new_status, error, from_date, hist>>

SleepExc_advances_timestamp ==
    /\ pc = "sleep_exc"
    /\ CanSleep
    /\ now' = now + RETRY_TIME
    /\ current_timestamp' = now'
    /\ error' = Unbound
    /\ pc' = "check_tokens"
    /\ stepLog' = <<>>
    /\ iter' = [iter EXCEPT !.sleep = @ + 1]
    /\ ever' = [ever EXCEPT !.sleep = TRUE, !.sleptSinceFetch = TRUE,
                             !.lastPath = "except"]
    /\ UNCHANGED <<creds, response, homework, status, new_status, message,
                   uncaught, from_date, lastSend, hist>>

\* time.sleep(RETRY_TIME) of the except clause; leaving the clause unbinds error
SleepExc ==
    /\ pc = "sleep_exc"
    /\ CanSleep
    /\ now' = now + RETRY_TIME
    /\ error' = Unbound
    /\ pc' = "check_tokens"
    /\ stepLog' = <<>>
    /\ iter' = [iter EXCEPT !.sleep = @ + 1]
    /\ ever' = [ever EXCEPT !.sleep = TRUE, !.sleptSinceFetch = TRUE,
                             !.lastPath = "except"]
    /\ UNCHANGED <<creds, current_timestamp, response, homework, status,
                   new_status, message, uncaught, from_date, lastSend, hist>>

Timestamp2_keeps_timestamp ==
    /\ pc = "timestamp2"
    /\ pc' = "fetch2"
    /\ stepLog' = <<>>
    /\ UNCHANGED <<creds, now, current_timestamp, response, homework, status,
                   new_status, message, error, uncaught, from_date, lastSend,
                   iter, ever, hist>>

\* current_timestamp = int(time.time()), the first statement of the else clause
Timestamp2 ==
    /\ pc = "timestamp2"
    /\ current_timestamp' = now
    /\ pc' = "fetch2"
    /\ stepLog' = <<>>
    /\ UNCHANGED <<creds, now, response, homework, status, new_status, message,
                   error, uncaught, from_date, lastSend, iter, ever, hist>>

\* response = get_api_answer(current_timestamp), in the else clause
Fetch2 ==
    /\ pc = "fetch2"
    /\ \E http \in HttpOutcomes :
         LET a == get_api_answer(current_timestamp, now, http)
         IN /\ from_date' = a.from_date
            /\ stepLog' = a.r.log
            /\ IF a.r.k = "return"
               THEN /\ response' = a.r.v
                    /\ hist' = Fetched(a.r.v)
                    /\ iter' = [iter EXCEPT !.fetch = @ + 1,
                                            !.same = SamePayload(a.r.v),
                                            !.status_code = http.status_code]
                    /\ pc' = "check2"
                    /\ uncaught' = uncaught
               ELSE /\ uncaught' = a.r.exc
                    /\ pc' = "crashed"
                    /\ iter' = [iter EXCEPT !.fetch = @ + 1,
                                            !.raisedBy = "get_api_answer",
                                            !.status_code = http.status_code]
                    /\ UNCHANGED <<response, hist>>
    /\ ever' = [ever EXCEPT !.fetch = TRUE, !.sleptSinceFetch = FALSE]
    /\ UNCHANGED <<creds, now, current_timestamp, homework, status, new_status,
                   message, error, lastSend>>

\* homework = check_response(response), in the else clause
Check2 ==
    /\ pc = "check2"
    /\ LET r == check_response(response)
       IN /\ stepLog' = r.log
          /\ IF r.k = "return"
             THEN /\ homework' = r.v
                  /\ pc' = "status2"
                  /\ uncaught' = uncaught
             ELSE /\ uncaught' = r.exc
                  /\ pc' = "crashed"
                  /\ homework' = homework
          /\ iter' = [iter EXCEPT !.check = @ + 1,
                                  !.raisedBy = IF r.k = "return" THEN @
                                               ELSE "check_response"]
    /\ UNCHANGED <<creds, now, current_timestamp, response, status, new_status,
                   message, error, from_date, lastSend, ever, hist>>

\* new_status = homework[0]['status'] or None, in the else clause
Status2 ==
    /\ pc = "status2"
    /\ LET r == first_status(homework)
       IN IF r.k = "return"
          THEN /\ new_status' = r.v
               /\ pc' = "compare"
               /\ uncaught' = uncaught
               /\ iter' = iter
          ELSE /\ uncaught' = r.exc
               /\ pc' = "crashed"
               /\ new_status' = new_status
               /\ iter' = [iter EXCEPT !.raisedBy = "first_status"]
    /\ stepLog' = <<>>
    /\ UNCHANGED <<creds, now, current_timestamp, response, homework, status,
                   message, error, from_date, lastSend, ever, hist>>

\* the branch taken when the status changed: parse_status, then send_message
Notify ==
    /\ pc = "compare"
    /\ StatusDiffers(status, new_status)
    /\ LET r == parse_status(homework.v[1])
       IN IF r.k = "raise"
          THEN /\ uncaught' = r.exc
               /\ pc' = "crashed"
               /\ stepLog' = r.log
               /\ UNCHANGED <<message, lastSend, ever, hist>>
               /\ iter' = [iter EXCEPT !.branch = "notify",
                                       !.raisedBy = "parse_status"]
          ELSE /\ message' = r.v
               /\ \E outcome \in BotOutcomes :
                    LET s == send_message(r.v, outcome)
                    IN /\ lastSend' = [msg |-> r.v, kind |-> "status",
                                       attempts |-> s.attempts,
                                       raised |-> s.raised, outcome |-> outcome]
                       /\ stepLog' = r.log \o s.log
                       /\ IF s.raised
                          THEN /\ pc' = "crashed"
                               /\ uncaught' =
                                    Exc("TelegramError", <<"TelegramError">>)
                          ELSE /\ pc' = "check_tokens"
                               /\ uncaught' = uncaught
                       /\ iter' = [iter EXCEPT !.branch = "notify",
                                               !.sendStatus = @ + 1,
                                               !.raisedBy = IF s.raised
                                                            THEN "send_message"
                                                            ELSE @]
               /\ ever' = [ever EXCEPT !.send = TRUE, !.lastPath = "else"]
               /\ hist' = [hist EXCEPT !.notified = TRUE]
    /\ UNCHANGED <<creds, now, current_timestamp, response, homework, status,
                   new_status, error, from_date>>

\* the branch taken otherwise: the debug message
Skip ==
    /\ pc = "compare"
    /\ ~StatusDiffers(status, new_status)
    /\ message' = <<"Status raboty ne izmenilsya">>
    /\ stepLog' = <<LogRec("DEBUG", <<"Status raboty ne izmenilsya">>)>>
    /\ pc' = "check_tokens"
    /\ iter' = [iter EXCEPT !.branch = "skip"]
    /\ ever' = [ever EXCEPT !.lastPath = "else"]
    /\ UNCHANGED <<creds, now, current_timestamp, response, homework, status,
                   new_status, error, uncaught, from_date, lastSend, hist>>

Next ==
    \/ CheckTokens
    \/ Fetch1
    \/ Check1
    \/ Status1
    \/ Sleep1
    \/ Handler
    \/ SleepExc
    \/ Timestamp2
    \/ Fetch2
    \/ Check2
    \/ Status2
    \/ Notify
    \/ Skip

Spec == Init /\ [][Next]_vars

-----------------------------------------------------------------------------
(* parse_status on its own: every record a caller can pass *)

ParseNames == {Str(""), Str("hw0"), Str("hw1"), Int(0), Int(7), None}
ParseStatuses == HomeworkStatusValues \cup {Str(""), Str("Approved")}

ParseRecords ==
    {Dict([homework_name |-> n, status |-> s]) :
        n \in ParseNames, s \in ParseStatuses}
    \cup {Dict([status |-> s]) : s \in ParseStatuses}
    \cup {Dict([homework_name |-> n]) : n \in ParseNames}
    \cup {EmptyDict}

InitParse ==
    /\ pc = "parse"
    /\ creds = [PRACTICUM_TOKEN |-> TRUE, TELEGRAM_TOKEN |-> TRUE,
                TELEGRAM_CHAT_ID |-> TRUE]
    /\ now = StartTime
    /\ current_timestamp = StartTime
    /\ response = Unbound
    /\ homework \in {List(<<r>>) : r \in ParseRecords}
    /\ status = Unbound
    /\ new_status = Unbound
    /\ message = Unbound
    /\ error = Unbound
    /\ uncaught = Unbound
    /\ from_date = 0
    /\ lastSend = NoSend
    /\ stepLog = <<>>
    /\ iter = NewIter
    /\ ever = [fetch |-> FALSE, send |-> FALSE, sleep |-> FALSE,
               sleptSinceFetch |-> FALSE, lastPath |-> "none"]
    /\ hist = [any |-> FALSE, allSame |-> TRUE, notified |-> FALSE]

\* message = parse_status(homework[0])
ParseCall ==
    /\ pc = "parse"
    /\ LET r == parse_status(homework.v[1])
       IN /\ stepLog' = r.log
          /\ IF r.k = "return"
             THEN /\ message' = r.v
                  /\ pc' = "parsed"
                  /\ uncaught' = uncaught
             ELSE /\ uncaught' = r.exc
                  /\ pc' = "parse_raised"
                  /\ message' = message
    /\ UNCHANGED <<creds, now, current_timestamp, response, homework, status,
                   new_status, error, from_date, lastSend, iter, ever, hist>>

NextParse == ParseCall

SpecParse == InitParse /\ [][NextParse]_vars

-----------------------------------------------------------------------------
(* Vocabulary of the properties *)

AllPresent(c) == c.PRACTICUM_TOKEN /\ c.TELEGRAM_TOKEN /\ c.TELEGRAM_CHAT_ID

\* a dict with a 'homeworks' list and a 'current_date'
ValidPayload(p) ==
    /\ IsDict(p)
    /\ HasKey(p, "homeworks")
    /\ HasKey(p, "current_date")
    /\ IsList(p.v["homeworks"])

\* the exception of the step that has just raised
Raised == IF pc = "crashed" THEN uncaught ELSE error

\* the iteration has made its comparison, on the payload held in response
Compared ==
    /\ iter.branch # "none"
    /\ ValidPayload(response)
    /\ homework = response.v["homeworks"]

\* the first record of the fetched list has a name
FirstIsNamed ==
    /\ Truthy(homework)
    /\ IsDict(homework.v[1])
    /\ HasKey(homework.v[1], "homework_name")
    /\ Truthy(homework.v[1].v["homework_name"])

-----------------------------------------------------------------------------
(* C1: in every poll cycle whose valid payloads give a first record with a  *)
(* non-null status different from the recorded one, exactly one status      *)
(* notification is handed to send_message, whatever the status value is,    *)
(* also one outside HOMEWORK_STATUSES.  Stated for the cycles that have     *)
(* made their comparison and whose first record has a non-empty name.       *)
C1_ChangeNotifiedOnce ==
    (/\ Compared
     /\ FirstIsNamed
     /\ pc \in {"check_tokens", "crashed"}
     /\ new_status # None
     /\ new_status # status)
    => (iter.sendStatus = 1 /\ lastSend.kind = "status")

(* C2: when the status of the first homework equals the recorded status, or *)
(* the list is empty (null status), the comparison step sends nothing: it   *)
(* only logs the debug message and the loop goes on.                        *)
C2_UnchangedStatusSendsNothing ==
    [][(pc = "compare" /\ (new_status = status \/ new_status = None))
       => /\ pc' = "check_tokens"
          /\ iter'.branch = "skip"
          /\ iter'.sendStatus = 0
          /\ iter'.sendFail = 0
          /\ lastSend' = NoSend
          /\ stepLog' = <<LogRec("DEBUG", <<"Status raboty ne izmenilsya">>)>>]_vars

C2_Witness ==
    /\ pc = "check_tokens"
    /\ iter.branch = "skip"
    /\ KnownStatus(status)
    /\ new_status = status

(* C3: two fetches in succession that return the same payload never produce *)
(* two status notifications: an iteration sends at most one, none before    *)
(* its second fetch, and none when its two fetches returned the same        *)
(* payload; while every fetch has returned the same payload, no status      *)
(* notification has been sent at all.                                       *)
C3_SamePayloadNeverNotifiesTwice ==
    /\ iter.sendStatus <= 1
    /\ (iter.fetch <= 1 => iter.sendStatus = 0)
    /\ (iter.fetch = 2 /\ iter.same => iter.sendStatus = 0)
    /\ (hist.allSame => ~hist.notified)

C3_Witness ==
    /\ pc = "check_tokens"
    /\ iter.fetch = 2
    /\ iter.same
    /\ iter.branch = "skip"
    /\ KnownStatus(new_status)
    /\ hist.allSame
    /\ now > StartTime + RETRY_TIME

(* C4: with all three credentials present, every exception raised in a     *)
(* poll cycle is caught by the top-level handler; no such error terminates *)
(* the process.                                                            *)
C4_NoErrorIsFatal ==
    AllPresent(creds) => pc # "crashed"

Contains(t, s) ==
    \E i \in 0..(Len(t) - Len(s)) : \A j \in 1..Len(s) : t[i + j] = s[j]

(* C6: send_message never raises to its caller: each call makes exactly    *)
(* one attempt, logs an error when the transport failed and an             *)
(* informational record when it succeeded, and control returns to main,    *)
(* which goes on with the loop.                                            *)
C6_SendMessageNeverRaises ==
    lastSend.kind # "none"
    => /\ lastSend.attempts = 1
       /\ ~lastSend.raised
       /\ iter.raisedBy # "send_message"
       /\ uncaught = Unbound
       /\ pc \in {"sleep_exc", "check_tokens"}
       /\ (pc = (IF lastSend.kind = "failure" THEN "sleep_exc" ELSE "check_tokens")
           => /\ stepLog # <<>>
              /\ stepLog[Len(stepLog)].level =
                   (IF lastSend.outcome = "TelegramError" THEN "ERROR" ELSE "INFO")
              /\ Contains(stepLog[Len(stepLog)].msg, lastSend.msg))

C6_Witness ==
    /\ lastSend.kind = "status"
    /\ lastSend.outcome = "TelegramError"
    /\ pc = "check_tokens"

\* response is a dict that lacks 'homeworks' or 'current_date'
LacksKey == IsDict(response)
            /\ (~HasKey(response, "homeworks") \/ ~HasKey(response, "current_date"))

\* the step of check_response signals an exception of this type and returns
\* nothing
ChecksTo(type) ==
    /\ pc' = (IF pc = "check1" THEN "handler" ELSE "crashed")
    /\ iter'.raisedBy = "check_response"
    /\ Raised'.type = type
    /\ homework' = homework

(* C7, as stated: for every payload in which 'homeworks' or 'current_date' *)
(* is absent, the empty object included, check_response signals KeyError   *)
(* and returns nothing.                                                    *)
C7_AbsentKeyIsKeyError ==
    [][(pc \in {"check1", "check2"} /\ LacksKey) => ChecksTo("KeyError")]_vars

(* C7, amended: for every non-empty dict payload in which 'homeworks' or   *)
(* 'current_date' is absent, check_response signals KeyError and returns   *)
(* nothing.                                                                *)
C7_AbsentKeyOfNonEmptyDictIsKeyError ==
    [][(pc \in {"check1", "check2"} /\ LacksKey /\ Truthy(response))
       => ChecksTo("KeyError")]_vars

C7_Witness ==
    /\ pc = "handler"
    /\ iter.raisedBy = "check_response"
    /\ error.type = "KeyError"
    /\ IsDict(response)
    /\ HasKey(response, "homeworks")
    /\ ~IsList(response.v["homeworks"])
    /\ ~HasKey(response, "current_date")

\* response is a dict whose 'homeworks' value is not a list
HomeworksNotList ==
    IsDict(response) /\ HasKey(response, "homeworks")
    /\ ~IsList(response.v["homeworks"])

(* C8, as stated: for every payload whose 'homeworks' value is not a list, *)
(* whether or not 'current_date' is present, check_response signals        *)
(* TypeError and returns nothing.                                          *)
C8_NonListIsTypeError ==
    [][(pc \in {"check1", "check2"} /\ HomeworksNotList)
       => ChecksTo("TypeError")]_vars

(* C8, amended: for every payload that has 'current_date' and whose        *)
(* 'homeworks' value is not a list, check_response signals TypeError and   *)
(* returns nothing.                                                        *)
C8_NonListWithDateIsTypeError ==
    [][(pc \in {"check1", "check2"} /\ HomeworksNotList
        /\ HasKey(response, "current_date"))
       => ChecksTo("TypeError")]_vars

C8_Witness ==
    /\ pc = "crashed"
    /\ iter.raisedBy = "check_response"
    /\ uncaught.type = "TypeError"
    /\ HomeworksNotList
    /\ HasKey(response, "current_date")

(* C9: for every HTTP status code other than 200, get_api_answer logs an   *)
(* error and raises HTTPError with a message that contains the code, and   *)
(* returns no body; for status 200 it does not raise HTTPError.            *)
C9_Non200RaisesHTTPError ==
    /\ (iter.status_code \notin {0, 200}
        => /\ iter.raisedBy = "get_api_answer"
           /\ pc \in {"handler", "sleep_exc", "check_tokens", "crashed"}
           /\ (pc \in {"handler", "crashed"}
               => /\ Raised.type = "HTTPError"
                  /\ Contains(Raised.msg, Digits(iter.status_code))
                  /\ stepLog = <<LogRec("ERROR", Raised.msg)>>))
    /\ (iter.status_code = 200 /\ iter.raisedBy = "get_api_answer"
        /\ pc \in {"handler", "crashed"}
        => Raised.type # "HTTPError")

C9_Witness ==
    /\ pc = "handler"
    /\ iter.status_code = 201
    /\ error.type = "HTTPError"
    /\ error.msg = <<"Kod otveta API: ", "2", "0", "1">>

\* the record has a non-empty name and a status of HOMEWORK_STATUSES
WellFormed(hw) ==
    /\ IsDict(hw)
    /\ HasKey(hw, "homework_name") /\ HasKey(hw, "status")
    /\ hw.v["homework_name"].t = "str" /\ hw.v["homework_name"].v # ""
    /\ hw.v["status"].t = "str"
    /\ hw.v["status"].v \in {"approved", "reviewing", "rejected"}

ExpectedText(hw) ==
    <<"Izmenilsya status proverki raboty \"", hw.v["homework_name"].v, "\". ",
      HOMEWORK_STATUSES[hw.v["status"].v]>>

(* C10: for every record with a non-empty name N and a status S of          *)
(* HOMEWORK_STATUSES, parse_status returns the text                         *)
(* 'Izmenilsya status proverki raboty "N". V' with V = HOMEWORK_STATUSES[S] *)
(* and changes no program state: the caller's variables other than the      *)
(* message it assigns keep their values.                                    *)
C10_ParseStatusText ==
    [][(pc = "compare" /\ StatusDiffers(status, new_status)
        /\ WellFormed(homework.v[1]))
       => /\ pc' = "check_tokens"
          /\ message' = ExpectedText(homework.v[1])
          /\ lastSend'.msg = ExpectedText(homework.v[1])
          /\ (homework.v[1].v["status"].v = "approved"
              => message'[4] = "Rabota proverena: revyueru vsyo ponravilos. Ura!")
          /\ UNCHANGED <<creds, now, current_timestamp, response, homework,
                         status, new_status, error, uncaught>>]_vars

C10_Witness ==
    /\ pc = "check_tokens"
    /\ iter.sendStatus = 1
    /\ new_status = Str("reviewing")
    /\ message = <<"Izmenilsya status proverki raboty \"", "hw1", "\". ",
                   "Rabota vzyata na proverku revyuerom.">>

(* C11: consecutive requests to the API are always separated by the fixed *)
(* sleep: after the first call of get_api_answer, every later call is     *)
(* preceded by a time.sleep(RETRY_TIME) executed since the previous call, *)
(* whether the previous cycle succeeded or failed.                        *)
C11_RequestsSeparatedBySleep ==
    (pc \in {"fetch1", "fetch2"} /\ ever.fetch) => ever.sleptSinceFetch

(* C12: each poll cycle goes Fetching, Validating, then Notifying or       *)
(* Skipping, then Sleeping: the decision to notify or skip is made after   *)
(* the iteration's fetch and validation and before the iteration's sleep.  *)
C12_DecisionBeforeSleep ==
    pc = "compare" => (iter.fetch >= 1 /\ iter.check >= 1 /\ iter.sleep = 0)

(* C13: after a cycle in which a status notification for status S was      *)
(* sent, the recorded last-known status is S, the status just compared.    *)
C13_StatusAdvancedToNotified ==
    (pc = "check_tokens" /\ iter.sendStatus = 1) => status = new_status

(* C14: on the exception path neither current_timestamp nor the recorded   *)
(* status is changed: the failing step, the handler and its sleep leave    *)
(* both as they were, and the next iteration fetches with the same         *)
(* current_timestamp as the failed one.                                    *)
C14_ExceptionPathKeepsTimestampAndStatus ==
    [][/\ (pc' = "handler" \/ pc \in {"handler", "sleep_exc"})
          => UNCHANGED <<current_timestamp, status>>
       /\ (pc = "check_tokens" /\ ever.lastPath = "except")
          => UNCHANGED <<current_timestamp, status>>
       /\ (pc = "fetch1" /\ ever.lastPath = "except")
          => (from_date' = from_date /\ from_date' = current_timestamp)]_vars

C14_Witness ==
    /\ pc = "check1"
    /\ ever.lastPath = "except"
    /\ KnownStatus(status)
    /\ current_timestamp = StartTime + RETRY_TIME
    /\ from_date = current_timestamp
    /\ now = current_timestamp + RETRY_TIME

\* the iteration left its try block without an exception
InElse == iter.sleep = 1 /\ iter.sendFail = 0

\* the iteration is on its exception path
InExcept == pc = "handler" \/ iter.sendFail = 1

\* the status of the first homework of a valid payload whose first record,
\* if any, has a status; None for an empty list
FirstStatusOf(p) ==
    IF p.v["homeworks"].v = <<>> THEN None
    ELSE p.v["homeworks"].v[1].v["status"]

(* C15, as stated: every iteration whose try block completes without       *)
(* exception calls get_api_answer and check_response exactly twice each;   *)
(* an iteration whose try block raises performs at most one fetch.         *)
C15_TwoFetchesTwoValidations ==
    /\ (InElse /\ pc \in {"check_tokens", "crashed"})
       => (iter.fetch = 2 /\ iter.check = 2)
    /\ (InExcept => iter.fetch <= 1)

(* C15, amended: every iteration whose try block completes without         *)
(* exception calls get_api_answer a second time, with a current_timestamp  *)
(* taken after the sleep; check_response is called a second time only if  *)
(* that fetch returns a body, and the comparison, when it is reached, is   *)
(* between the status of the first call's result and the status of the     *)
(* second call's result; an iteration whose try block raises performs at   *)
(* most one fetch.                                                         *)
C15_SecondFetchAfterSleep ==
    /\ iter.fetch <= 2 /\ iter.check <= iter.fetch
    /\ (InElse /\ pc = "fetch2")
       => /\ iter.fetch = 1 /\ iter.check = 1
          /\ current_timestamp = now
          /\ from_date < current_timestamp
    /\ (InElse /\ pc \notin {"timestamp2", "fetch2"})
       => /\ iter.fetch = 2
          /\ current_timestamp = now
          /\ from_date = current_timestamp
          /\ (iter.raisedBy = "get_api_answer" => iter.check = 1)
          /\ (pc \in {"status2", "compare"} => iter.check = 2)
    /\ (InElse /\ iter.branch # "none")
       => /\ iter.check = 2
          /\ status = FirstStatusOf(iter.payload1)
          /\ new_status = FirstStatusOf(response)
    /\ (InExcept => iter.fetch = 1 /\ iter.check <= 1)

C15_Witness ==
    /\ pc = "check_tokens"
    /\ InElse
    /\ iter.fetch = 2
    /\ iter.check = 2
    /\ iter.branch = "notify"
    /\ iter.payload1 # response
    /\ from_date = StartTime + 2 * RETRY_TIME

(* C16: get_api_answer returns a parsed body only for a 200 response with  *)
(* a non-empty body; a 200 response whose body is empty or falsy fails     *)
(* with the empty-response error, logged and raised as Exception.          *)
C16_EmptyBodyIsEmptyResponseError ==
    /\ (pc \in {"check1", "check2"})
       => (iter.status_code = HTTPStatusOK /\ Truthy(response))
    /\ (/\ pc \in {"handler", "crashed"}
        /\ iter.raisedBy = "get_api_answer"
        /\ iter.status_code = HTTPStatusOK)
       => (/\ Raised.type = "Exception"
           /\ Contains(Raised.msg, <<"Poluchen pusto otvet pri obrashchenii k API">>)
           /\ stepLog = <<LogRec("ERROR", Raised.msg)>>)

\* the step of check_response has logged the exception it signals, once
LoggedOnce == stepLog' = <<LogRec("ERROR", Raised'.msg)>>

(* C17: check_response applies its checks in a fixed precedence and        *)
(* reports only the first violated one: a falsy payload (also an empty     *)
(* list or an empty string) gets the empty-response Exception; otherwise a *)
(* non-dict gets TypeError; otherwise a missing 'homeworks' gets KeyError  *)
(* naming 'homeworks'; otherwise a missing 'current_date' gets KeyError    *)
(* naming 'current_date'; otherwise a non-list 'homeworks' gets TypeError; *)
(* otherwise response['homeworks'] is returned unmodified, possibly empty, *)
(* whatever its elements are.                                              *)
C17_CheckPrecedence ==
    [][(pc \in {"check1", "check2"}
       => IF ~Truthy(response)
          THEN /\ ChecksTo("Exception")
               /\ Contains(Raised'.msg, <<"Poluchen pustoy otvet pri obrashchenii k API">>)
               /\ LoggedOnce
          ELSE IF ~IsDict(response)
          THEN /\ ChecksTo("TypeError")
               /\ ~Contains(Raised'.msg, <<"homeworks">>)
               /\ LoggedOnce
          ELSE IF ~HasKey(response, "homeworks")
          THEN /\ ChecksTo("KeyError")
               /\ Contains(Raised'.msg, <<"homeworks">>)
               /\ LoggedOnce
          ELSE IF ~HasKey(response, "current_date")
          THEN /\ ChecksTo("KeyError")
               /\ Contains(Raised'.msg, <<"current_date">>)
               /\ LoggedOnce
          ELSE IF ~IsList(response.v["homeworks"])
          THEN /\ ChecksTo("TypeError")
               /\ LoggedOnce
          ELSE /\ pc' = (IF pc = "check1" THEN "status1" ELSE "status2")
               /\ homework' = response.v["homeworks"]
               /\ stepLog' = <<>>
               /\ iter'.raisedBy = "none")]_vars

C17_Witness ==
    /\ pc = "handler"
    /\ iter.raisedBy = "check_response"
    /\ response = Str("")
    /\ error.type = "Exception"

\* the log holds a record with this text
Logged(text) == \E i \in 1..Len(stepLog) : stepLog[i] = LogRec("ERROR", text)

(* C18: for every record with both keys whose homework_name is empty or    *)
(* whose status is not a key of HOMEWORK_STATUSES, parse_status logs an    *)
(* error and then fails with UnboundLocalError, never returning a message; *)
(* for a record lacking 'homework_name' or 'status' it raises KeyError,    *)
(* naming the first missing key, before any other check.                   *)
C18_ParseStatusFailures ==
    pc \in {"parsed", "parse_raised"}
    => LET hw == homework.v[1]
       IN IF ~HasKey(hw, "homework_name") \/ ~HasKey(hw, "status")
          THEN /\ pc = "parse_raised"
               /\ uncaught.type = "KeyError"
               /\ Contains(uncaught.msg,
                           <<IF ~HasKey(hw, "homework_name")
                             THEN "homework_name" ELSE "status">>)
               /\ stepLog = <<LogRec("ERROR", uncaught.msg)>>
               /\ message = Unbound
          ELSE (~Truthy(hw.v["homework_name"]) \/ ~KnownStatus(hw.v["status"]))
               => /\ pc = "parse_raised"
                  /\ uncaught.type = "UnboundLocalError"
                  /\ message = Unbound
                  /\ stepLog # <<>>
                  /\ (Logged(<<"Otsustvuet imya proekta">>)
                      <=> ~Truthy(hw.v["homework_name"]))
                  /\ (Logged(<<"Neizvestnyy status proekta">>)
                      <=> ~KnownStatus(hw.v["status"]))

C18_Witness ==
    /\ pc = "parse_raised"
    /\ homework = List(<<Dict([homework_name |-> Str("hw1"),
                              status |-> Str("bogus")])>>)
    /\ uncaught.type = "UnboundLocalError"
    /\ stepLog = <<LogRec("ERROR", <<"Neizvestnyy status proekta">>)>>

\* the last send was the status notification for status s
NotifiedFor(s) ==
    /\ iter.sendStatus = 1
    /\ lastSend.kind = "status"
    /\ Contains(lastSend.msg, <<HOMEWORK_STATUSES[s.v]>>)

(* C19: no status change is lost.  For two consecutive successful fetches  *)
(* whose first homework's statuses differ, the later one being a key of    *)
(* HOMEWORK_STATUSES, a status notification for the later status is handed *)
(* to send_message: for the pair inside one iteration (stated for a first  *)
(* record that has a name) and for the pair formed by the second fetch of  *)
(* one iteration and the first fetch of the next.                          *)
C19_NoStatusChangeLost ==
    /\ (/\ Compared
        /\ FirstIsNamed
        /\ pc \in {"check_tokens", "crashed"}
        /\ KnownStatus(new_status)
        /\ new_status # status)
       => NotifiedFor(new_status)
    /\ (/\ Compared
        /\ pc = "check_tokens"
        /\ iter.prev # Unbound
        /\ KnownStatus(status)
        /\ status # iter.prev)
       => NotifiedFor(status)

(* C20: status is always assigned before the comparison reads it: the      *)
(* comparison is reached only in an iteration whose try block ran to       *)
(* completion, and there status is the first-homework status (or None) of  *)
(* that same iteration's first fetch, never unbound and never a value left *)
(* from an earlier iteration.                                              *)
C20_StatusAssignedBeforeComparison ==
    pc = "compare"
    => /\ status # Unbound
       /\ InElse
       /\ iter.raisedBy = "none"
       /\ ValidPayload(iter.payload1)
       /\ status = FirstStatusOf(iter.payload1)

C20_Witness ==
    /\ pc = "compare"
    /\ now = StartTime + 2 * RETRY_TIME
    /\ iter.prev # Unbound
    /\ KnownStatus(status)
    /\ status # iter.prev
    /\ status # new_status

====
